---- MODULE Spec2Model ----
(***************************************************************************)
(* A model of the web crawler of src/index.ts: the URL frontier            *)
(* (PriorityQueue, URLFrontier), the two stores (ContentStorage,           *)
(* URLStorage), the URL filter and the crawl loop of WebCrawler.crawl.     *)
(*                                                                         *)
(* Time is counted in ticks of 100 ms, the interval of the loop's wait     *)
(* (src/index.ts:447); clock is the value Date.now() returns.  The clock   *)
(* advances while the loop is suspended in an await (the wait and the      *)
(* download) and is taken to be monotone.  The field URLInfo.timestamp is  *)
(* written at lines 432 and 497 and never read; it is left out.            *)
(***************************************************************************)
EXTENDS Integers, Sequences, FiniteSets, TLC

VARIABLES
    pc,              \* position of crawl(): "init", "loop", "got", "done"
                     \*   (a URLFrontier used on its own: "frontier", "fgot")
    config,          \* WebCrawler.config (maxPages, maxDepth, politenessDelay)
    clock,           \* Date.now()
    frontQueues,     \* URLFrontier.frontQueues: tier -> PriorityQueue.items
    backQueues,      \* URLFrontier.backQueues: Map in insertion order
    lastAccessTime,  \* URLFrontier.lastAccessTime: host -> time, or Absent
    visitedUrls,     \* URLStorage.visitedUrls
    storage,         \* ContentStorage.storage: url -> CrawlResult (url and hash;
                     \*   the loop never reads a stored content or link list)
    seenHashes,      \* ContentStorage.seenHashes
    crawledCount,    \* WebCrawler.crawledCount
    urlInfo,         \* the value the last getNextURL() returned (NoURL: null)
    lastReturn,      \* history: host -> when getNextURL last returned a URL of it
    lastGap,         \* history: the last return's distance from the one before
                     \*          it for the same host (Absent: it was the first)
    returned,        \* history: url -> number of times getNextURL returned it
    downloads,       \* history: url -> number of calls of download(url)
    fetched          \* history: the (url, hash) of the downloads that succeeded

vars == <<pc, config, clock, frontQueues, backQueues, lastAccessTime,
          visitedUrls, storage, seenHashes, crawledCount, urlInfo,
          lastReturn, lastGap, returned, downloads, fetched>>

(***************************************************************************)
(* Bounds of the model.                                                    *)
(***************************************************************************)
MaxPagesBound == 2     \* config.maxPages is drawn from 0..MaxPagesBound
MaxDepthBound == 1     \* config.maxDepth is drawn from 0..MaxDepthBound
MaxDelay == 2          \* config.politenessDelay is drawn from 0..MaxDelay
MaxSeeds == 2          \* seedUrls has at most MaxSeeds entries
MaxLinks == 1          \* a page has at most MaxLinks links
MaxQueued == 3         \* a URLFrontier used on its own holds at most MaxQueued URLs

\* Date.now() at construction: before and after the first politenessDelay
StartClocks == {0, MaxDelay}

\* a download returns within the tick or in the next one
FetchTimes == {0, 1}

(***************************************************************************)
(* The URLs of the model and what `new URL(u)` makes of each.              *)
(***************************************************************************)
URLS == {"http://a.com/", "http://a.com/p.html", "https://b.com/x", "http://spam.com/"}

Hostname(u) ==
    CASE u = "http://a.com/" -> "a.com"
      [] u = "http://a.com/p.html" -> "a.com"
      [] u = "https://b.com/x" -> "b.com"
      [] u = "http://spam.com/" -> "spam.com"

Protocol(u) == IF u = "https://b.com/x" THEN "https:" ELSE "http:"

\* pathname.substring(pathname.lastIndexOf(".")) when the pathname has a ".",
\* and "" when it has none
Extension(u) == IF u = "http://a.com/p.html" THEN ".html" ELSE ""

UrlLength(u) ==
    CASE u = "http://a.com/" -> 13
      [] u = "http://a.com/p.html" -> 19
      [] u = "https://b.com/x" -> 15
      [] u = "http://spam.com/" -> 16

HOSTS == {Hostname(u) : u \in URLS}

blacklistedDomains == {"spam.com", "malicious.com"}
allowedExtensions == {".html", ".htm", ".php", ".asp", ".jsp"}
maxUrlLength == 2000

IsValidURL(u) ==
    /\ ~(UrlLength(u) > maxUrlLength)
    /\ Hostname(u) \notin blacklistedDomains
    /\ (Extension(u) # "" => Extension(u) \in allowedExtensions)
    /\ Protocol(u) \in {"http:", "https:"}

(***************************************************************************)
(* Page bodies and their SHA-256 digests.                                  *)
(***************************************************************************)
CONTENTS == {"body1", "body2"}

Sha256(c) == IF c = "body1" THEN "digest1" ELSE "digest2"

(***************************************************************************)
(* Sequences.                                                              *)
(***************************************************************************)
SeqsUpTo(S, n) == UNION {[1..k -> S] : k \in 0..n}

Min(S) == CHOOSE x \in S : \A y \in S : x <= y

Max2(a, b) == IF a >= b THEN a ELSE b

Range(s) == {s[i] : i \in 1..Len(s)}

(***************************************************************************)
(* URLInfo and null.                                                       *)
(***************************************************************************)
NoURL == [url |-> "", priority |-> -1, depth |-> -1, host |-> ""]

MkURLInfo(u, p, d) == [url |-> u, priority |-> p, depth |-> d, host |-> Hostname(u)]

Absent == -1

(***************************************************************************)
(* PriorityQueue                                                           *)
(***************************************************************************)
\* a bug: the comparison is >=, an element goes in front of its equals
PQEnqueueBeforeEquals(items, item, priority) ==
    LET el == [item |-> item, priority |-> priority]
        before == {i \in 1..Len(items) : priority >= items[i].priority}
    IN  IF before = {}
        THEN Append(items, el)
        ELSE LET i == Min(before)
             IN  SubSeq(items, 1, i - 1) \o <<el>> \o SubSeq(items, i, Len(items))

PQEnqueue(items, item, priority) ==
    LET el == [item |-> item, priority |-> priority]
        before == {i \in 1..Len(items) : priority > items[i].priority}
    IN  IF before = {}
        THEN Append(items, el)
        ELSE LET i == Min(before)
             IN  SubSeq(items, 1, i - 1) \o <<el>> \o SubSeq(items, i, Len(items))

(***************************************************************************)
(* URLFrontier                                                             *)
(***************************************************************************)
PRIORITIES == 0..4

EmptyFrontQueues == [p \in PRIORITIES |-> <<>>]

\* a bug: a priority outside 0..4 is clamped to the nearest tier
AddURLClamped(fq, info) ==
    LET tier == IF info.priority > 4 THEN 4 ELSE Max2(0, info.priority)
    IN  [fq EXCEPT ![tier] = PQEnqueue(@, info, info.priority)]

AddURL(fq, info) ==
    LET tier == IF info.priority \in DOMAIN fq THEN info.priority ELSE 0
    IN  [fq EXCEPT ![tier] = PQEnqueue(@, info, info.priority)]

\* the index of host h in the Map backQueues, 0 when it has no entry
BackIndex(bq, h) ==
    LET at == {i \in 1..Len(bq) : bq[i].host = h}
    IN  IF at = {} THEN 0 ELSE Min(at)

\* a bug: the URL taken from its tier is not put on its host's back queue
BackPushLost(bq, info) ==
    IF BackIndex(bq, info.host) = 0
    THEN Append(bq, [host |-> info.host, queue |-> <<>>])
    ELSE bq

BackPush(bq, info) ==
    LET withHost == IF BackIndex(bq, info.host) = 0
                    THEN Append(bq, [host |-> info.host, queue |-> <<>>])
                    ELSE bq
        i == BackIndex(withHost, info.host)
    IN  [withHost EXCEPT ![i].queue = Append(@, info)]

\* lastAccessTime.get(host) || 0
LastAccess(lat, h) == IF lat[h] = Absent THEN 0 ELSE lat[h]

\* a bug: the delay is left out of the comparison
HostReadyNoDelay(lat, h, delay, now) == now - LastAccess(lat, h) >= 0

HostReady(lat, h, delay, now) == now - LastAccess(lat, h) >= delay

GetFromBackQueue(bq, lat, delay, now) ==
    LET ready == {i \in 1..Len(bq) :
                     /\ Len(bq[i].queue) # 0
                     /\ HostReady(lat, bq[i].host, delay, now)}
    IN  IF ready = {}
        THEN [ret |-> NoURL, bq |-> bq, lat |-> lat]
        ELSE LET i == Min(ready)
             IN  [ret |-> Head(bq[i].queue),
                  bq |-> [bq EXCEPT ![i].queue = Tail(@)],
                  lat |-> [lat EXCEPT ![bq[i].host] = now]]

\* a bug: the tiers are scanned from 0 upwards
TopTierLowestFirst(fq) ==
    LET full == {p \in PRIORITIES : Len(fq[p]) # 0}
    IN  IF full = {} THEN -1 ELSE Min(full)

\* the tier the loop of getNextURL stops at, -1 when every tier is empty
TopTier(fq) ==
    LET full == {p \in PRIORITIES : Len(fq[p]) # 0}
    IN  IF full = {} THEN -1 ELSE CHOOSE p \in full : \A q \in full : q <= p

GetNextURL(fq, bq, lat, delay, now) ==
    LET p == TopTier(fq)
    IN  IF p = -1
        THEN [fq |-> fq] @@ GetFromBackQueue(bq, lat, delay, now)
        ELSE [fq |-> [fq EXCEPT ![p] = Tail(@)]]
             @@ GetFromBackQueue(BackPush(bq, Head(fq[p]).item), lat, delay, now)

FrontierIsEmpty(fq, bq) ==
    /\ \A p \in PRIORITIES : Len(fq[p]) = 0
    /\ \A i \in 1..Len(bq) : Len(bq[i].queue) = 0

(***************************************************************************)
(* ContentStorage and URLStorage                                           *)
(***************************************************************************)
\* a bug: the hash is never looked up
IsContentSeenNever(hashes, h) == FALSE

IsContentSeen(hashes, h) == h \in hashes

IsURLSeen(visited, u) == u \in visited

\* a bug: the URL is not recorded
MarkAsVisitedDropped(visited, u) == visited

MarkAsVisited(visited, u) == visited \cup {u}

\* a bug: the record is not put in the map
MapSetLost(m, k, v) == m

MapSet(m, k, v) == [x \in DOMAIN m \cup {k} |-> IF x = k THEN v ELSE m[x]]

(***************************************************************************)
(* WebCrawler.crawl                                                        *)
(***************************************************************************)
SeedPriority == 4

RECURSIVE AddSeeds(_, _)
AddSeeds(fq, seeds) ==
    IF seeds = <<>>
    THEN fq
    ELSE AddSeeds(IF IsValidURL(Head(seeds))
                  THEN AddURL(fq, MkURLInfo(Head(seeds), SeedPriority, 0))
                  ELSE fq,
                  Tail(seeds))

\* a bug: a visited link is enqueued again
LinkAcceptedUnchecked(visited, link) == IsValidURL(link)

LinkAccepted(visited, link) == IsValidURL(link) /\ ~IsURLSeen(visited, link)

\* a bug: the priority of a link is not kept at or above 0
NewUrlInfoUnclamped(parent, link) ==
    MkURLInfo(link, parent.priority - 1, parent.depth + 1)

NewUrlInfo(parent, link) ==
    MkURLInfo(link, Max2(0, parent.priority - 1), parent.depth + 1)

RECURSIVE AddLinks(_, _, _, _)
AddLinks(fq, links, parent, visited) ==
    IF links = <<>>
    THEN fq
    ELSE AddLinks(IF LinkAccepted(visited, Head(links))
                  THEN AddURL(fq, NewUrlInfo(parent, Head(links)))
                  ELSE fq,
                  Tail(links), parent, visited)

\* a bug: the budget is compared with <=
LoopGuardOffByOne(fq, bq, count, maxPages) ==
    ~FrontierIsEmpty(fq, bq) /\ count <= maxPages

LoopGuard(fq, bq, count, maxPages) ==
    ~FrontierIsEmpty(fq, bq) /\ count < maxPages

\* a bug: the depth is not checked
ShouldSkipVisitedOnly(info, visited, maxDepth) == IsURLSeen(visited, info.url)

\* a bug: the visited set is not checked
ShouldSkipDepthOnly(info, visited, maxDepth) == info.depth > maxDepth

ShouldSkip(info, visited, maxDepth) ==
    IsURLSeen(visited, info.url) \/ info.depth > maxDepth

\* a bug: the loop retries without sleeping
WaitIntervalZero == 1 - 1

\* setTimeout(resolve, 100): one tick
WaitInterval == 1

(***************************************************************************)
(* The state after `new WebCrawler(config)`.                               *)
(***************************************************************************)
Init ==
    /\ pc = "init"
    /\ config \in [maxPages : 0..MaxPagesBound,
                   maxDepth : 0..MaxDepthBound,
                   politenessDelay : 0..MaxDelay]
    /\ clock \in StartClocks
    /\ frontQueues = EmptyFrontQueues
    /\ backQueues = <<>>
    /\ lastAccessTime = [h \in HOSTS |-> Absent]
    /\ visitedUrls = {}
    /\ storage = <<>>
    /\ seenHashes = {}
    /\ crawledCount = 0
    /\ urlInfo = NoURL
    /\ lastReturn = [h \in HOSTS |-> Absent]
    /\ lastGap = Absent
    /\ returned = [u \in URLS |-> 0]
    /\ downloads = [u \in URLS |-> 0]
    /\ fetched = {}

frontierVars == <<frontQueues, backQueues, lastAccessTime>>
storeVars == <<visitedUrls, storage, seenHashes, crawledCount>>

\* lines 425-436: the seeds are filtered and enqueued
CrawlStart ==
    /\ pc = "init"
    /\ \E seedUrls \in SeqsUpTo(URLS, MaxSeeds) :
          frontQueues' = AddSeeds(frontQueues, seedUrls)
    /\ pc' = "loop"
    /\ UNCHANGED <<config, clock, backQueues, lastAccessTime, storeVars, urlInfo,
                   lastReturn, lastGap, returned, downloads, fetched>>

\* lines 439-443: the loop condition holds and getNextURL() is called
Dispatch ==
    /\ pc = "loop"
    /\ LoopGuard(frontQueues, backQueues, crawledCount, config.maxPages)
    /\ \E r \in {GetNextURL(frontQueues, backQueues, lastAccessTime,
                            config.politenessDelay, clock)} :
           /\ frontQueues' = r.fq
           /\ backQueues' = r.bq
           /\ lastAccessTime' = r.lat
           /\ urlInfo' = r.ret
           /\ lastReturn' = IF r.ret = NoURL
                            THEN lastReturn
                            ELSE [lastReturn EXCEPT ![r.ret.host] = clock]
           /\ lastGap' = IF r.ret = NoURL
                         THEN lastGap
                         ELSE IF lastReturn[r.ret.host] = Absent
                              THEN Absent
                              ELSE clock - lastReturn[r.ret.host]
           /\ returned' = IF r.ret = NoURL
                          THEN returned
                          ELSE [returned EXCEPT ![r.ret.url] = @ + 1]
    /\ pc' = "got"
    /\ UNCHANGED <<config, clock, storeVars, downloads, fetched>>

\* lines 439-441, 510-511: the loop condition fails and crawl() returns
LoopExit ==
    /\ pc = "loop"
    /\ ~LoopGuard(frontQueues, backQueues, crawledCount, config.maxPages)
    /\ pc' = "done"
    /\ UNCHANGED <<config, clock, frontierVars, storeVars, urlInfo,
                   lastReturn, lastGap, returned, downloads, fetched>>

\* lines 445-449: getNextURL() returned null; the loop sleeps and retries
WaitRetry ==
    /\ pc = "got"
    /\ urlInfo = NoURL
    /\ clock' = clock + WaitInterval
    /\ pc' = "loop"
    /\ UNCHANGED <<config, frontierVars, storeVars, urlInfo,
                   lastReturn, lastGap, returned, downloads, fetched>>

\* lines 451-456: the URL is visited already or too deep
SkipURL ==
    /\ pc = "got"
    /\ urlInfo # NoURL
    /\ ShouldSkip(urlInfo, visitedUrls, config.maxDepth)
    /\ pc' = "loop"
    /\ UNCHANGED <<config, clock, frontierVars, storeVars, urlInfo,
                   lastReturn, lastGap, returned, downloads, fetched>>

Fetching ==
    /\ pc = "got"
    /\ urlInfo # NoURL
    /\ ~ShouldSkip(urlInfo, visitedUrls, config.maxDepth)

\* lines 462-465, 504-507: download() (or parseHTML) throws
FetchFail ==
    /\ Fetching
    /\ \E d \in FetchTimes : clock' = clock + d
    /\ downloads' = [downloads EXCEPT ![urlInfo.url] = @ + 1]
    /\ visitedUrls' = MarkAsVisited(visitedUrls, urlInfo.url)
    /\ pc' = "loop"
    /\ UNCHANGED <<config, frontierVars, storage, seenHashes, crawledCount,
                   urlInfo, lastReturn, lastGap, returned, fetched>>

\* lines 462-472: the body's hash was stored before
FetchDuplicate ==
    /\ Fetching
    /\ \E d \in FetchTimes : clock' = clock + d
    /\ \E content \in CONTENTS :
          /\ IsContentSeen(seenHashes, Sha256(content))
          /\ fetched' = fetched \cup {<<urlInfo.url, Sha256(content)>>}
    /\ downloads' = [downloads EXCEPT ![urlInfo.url] = @ + 1]
    /\ visitedUrls' = MarkAsVisited(visitedUrls, urlInfo.url)
    /\ pc' = "loop"
    /\ UNCHANGED <<config, frontierVars, storage, seenHashes, crawledCount,
                   urlInfo, lastReturn, lastGap, returned>>

\* lines 462-503: the page is new: it is stored and its links are enqueued
FetchStore ==
    /\ Fetching
    /\ \E d \in FetchTimes : clock' = clock + d
    /\ \E content \in CONTENTS, links \in SeqsUpTo(URLS, MaxLinks) :
          /\ ~IsContentSeen(seenHashes, Sha256(content))
          /\ storage' = MapSet(storage, urlInfo.url,
                               [url |-> urlInfo.url, hash |-> Sha256(content)])
          /\ seenHashes' = seenHashes \cup {Sha256(content)}
          /\ fetched' = fetched \cup {<<urlInfo.url, Sha256(content)>>}
          /\ visitedUrls' = MarkAsVisited(visitedUrls, urlInfo.url)
          /\ frontQueues' = AddLinks(frontQueues, links, urlInfo, visitedUrls')
    /\ crawledCount' = crawledCount + 1
    /\ downloads' = [downloads EXCEPT ![urlInfo.url] = @ + 1]
    /\ pc' = "loop"
    /\ UNCHANGED <<config, backQueues, lastAccessTime, urlInfo, lastReturn, lastGap, returned>>

Next ==
    \/ CrawlStart
    \/ Dispatch
    \/ LoopExit
    \/ WaitRetry
    \/ SkipURL
    \/ FetchFail
    \/ FetchDuplicate
    \/ FetchStore

Spec == Init /\ [][Next]_vars

\* the same behaviours, with the loop never suspended for ever: every await of
\* crawl() (the timer of line 447, the download of line 462) settles
LiveSpec == Spec /\ WF_vars(Next)

(***************************************************************************)
(* A URLFrontier used on its own (the class is exported, line 583): any    *)
(* caller may interleave addURL and getNextURL as it likes, with any       *)
(* priority.  The stores of the crawler play no part and stay as they are; *)
(* urlInfo is what the caller's last call returned, dropped ("fgot" ->     *)
(* "frontier") when the caller goes on to something else.                  *)
(*                                                                         *)
(* getFromBackQueue reads the clock only in now - lastAccess, so a run is  *)
(* the same to it when every time is moved by the same amount.  Once the   *)
(* clock has reached ClockCap, a tick is modelled by moving the recorded   *)
(* times back instead of moving the clock on; a recorded time of 0 stays,  *)
(* its host being ready for good (ClockCap >= politenessDelay).  The clock *)
(* is counted from the construction of the frontier.                       *)
(***************************************************************************)
ClockCap == config.politenessDelay + 1

\* the priorities a caller passes: a tier, and one value on each side of 0..4
PriorityInputs == {-1, 4, 5}

\* the delays a caller constructs the frontier with: none, and one tick
FrontierDelays == {0, 1}

FrontierURLS == {u \in URLS : IsValidURL(u)}

TotalQueued(fq, bq) ==
    LET RECURSIVE SumTiers(_)
        SumTiers(P) == IF P = {} THEN 0
                       ELSE LET p == CHOOSE x \in P : TRUE
                            IN  Len(fq[p]) + SumTiers(P \ {p})
        RECURSIVE SumBack(_)
        SumBack(i) == IF i = 0 THEN 0 ELSE Len(bq[i].queue) + SumBack(i - 1)
    IN  SumTiers(PRIORITIES) + SumBack(Len(bq))

MovedBack(t) == IF t > 0 THEN t - 1 ELSE t

crawlerVars == <<visitedUrls, storage, seenHashes, crawledCount, returned,
                 downloads, fetched>>

FrontierInit ==
    /\ pc = "frontier"
    /\ config \in [maxPages : {0}, maxDepth : {0}, politenessDelay : FrontierDelays]
    /\ clock = 0
    /\ frontQueues = EmptyFrontQueues
    /\ backQueues = <<>>
    /\ lastAccessTime = [h \in HOSTS |-> Absent]
    /\ visitedUrls = {}
    /\ storage = <<>>
    /\ seenHashes = {}
    /\ crawledCount = 0
    /\ urlInfo = NoURL
    /\ lastReturn = [h \in HOSTS |-> Absent]
    /\ lastGap = Absent
    /\ returned = [u \in URLS |-> 0]
    /\ downloads = [u \in URLS |-> 0]
    /\ fetched = {}

\* lines 181-186: a caller's addURL(urlInfo)
FAddURL ==
    /\ pc \in {"frontier", "fgot"}
    /\ TotalQueued(frontQueues, backQueues) < MaxQueued
    /\ \E u \in FrontierURLS, p \in PriorityInputs :
          frontQueues' = AddURL(frontQueues, MkURLInfo(u, p, 0))
    /\ pc' = "frontier"
    /\ urlInfo' = NoURL
    /\ UNCHANGED <<config, clock, backQueues, lastAccessTime,
                   lastReturn, lastGap, crawlerVars>>

\* lines 188-223: a caller's getNextURL()
FGetNextURL ==
    /\ pc \in {"frontier", "fgot"}
    /\ \E r \in {GetNextURL(frontQueues, backQueues, lastAccessTime,
                            config.politenessDelay, clock)} :
           /\ frontQueues' = r.fq
           /\ backQueues' = r.bq
           /\ lastAccessTime' = r.lat
           /\ urlInfo' = r.ret
           /\ lastReturn' = IF r.ret = NoURL
                            THEN lastReturn
                            ELSE [lastReturn EXCEPT ![r.ret.host] = clock]
    /\ pc' = "fgot"
    /\ UNCHANGED <<config, clock, lastGap, crawlerVars>>

\* line 209: Date.now() has moved on by a tick since the last call
FTick ==
    /\ pc \in {"frontier", "fgot"}
    /\ IF clock < ClockCap
       THEN /\ clock' = clock + 1
            /\ UNCHANGED <<lastAccessTime, lastReturn>>
       ELSE /\ clock' = clock
            /\ lastAccessTime' = [h \in HOSTS |-> MovedBack(lastAccessTime[h])]
            /\ lastReturn' = [h \in HOSTS |-> MovedBack(lastReturn[h])]
    /\ pc' = "frontier"
    /\ urlInfo' = NoURL
    /\ UNCHANGED <<config, frontQueues, backQueues, lastGap, crawlerVars>>

FrontierNext ==
    \/ FAddURL
    \/ FGetNextURL
    \/ FTick

FrontierSpec == FrontierInit /\ [][FrontierNext]_vars

\* the same behaviours, with a clock that goes on: time passes between the
\* calls whatever the caller does
FrontierLive == FrontierSpec /\ WF_vars(FTick)

(***************************************************************************)
(* What the frontier holds.                                                *)
(***************************************************************************)
TierInfos(fq) == UNION {{fq[p][i].item : i \in 1..Len(fq[p])} : p \in PRIORITIES}

BackInfos(bq) == UNION {Range(bq[i].queue) : i \in 1..Len(bq)}

QueuedInfos == TierInfos(frontQueues) \cup BackInfos(backQueues)

RecordsWithHash(h) == {u \in DOMAIN storage : storage[u].hash = h}

(***************************************************************************)
(* The claims.                                                             *)
(***************************************************************************)

\* C1: politeness: when getNextURL returns a URL of a host it has returned a
\* URL of before, politenessDelay or more has passed since that return.
C1_Politeness == lastGap # Absent => lastGap >= config.politenessDelay

\* the second URL of a host is returned exactly politenessDelay after the first
C1_Witness ==
    /\ pc = "got"
    /\ urlInfo # NoURL
    /\ config.politenessDelay = MaxDelay
    /\ lastGap = MaxDelay

\* C2: at-most-once processing: download() is called at most once for a URL,
\* whatever the links and the outcomes of the fetches.
C2_AtMostOnce == \A u \in URLS : downloads[u] <= 1

\* a URL was returned a second time after its download, and the step is over
C2_Witness ==
    /\ pc = "loop"
    /\ urlInfo # NoURL
    /\ returned[urlInfo.url] >= 2
    /\ downloads[urlInfo.url] = 1

\* C3, as stated: getNextURL never returns a URL that is in the visited set.
C3_NoVisitedReturned ==
    (pc = "got" /\ urlInfo # NoURL) => urlInfo.url \notin visitedUrls

\* C3, amended: getNextURL can return a URL that is in the visited set (the
\* URL was enqueued more than once before its first visit); the crawl loop
\* discards it without a download.  No URL of the visited set is enqueued,
\* and none is removed from the set.
C3_VisitedNeverFetched ==
    [][/\ \A u \in URLS : downloads'[u] # downloads[u] => u \notin visitedUrls
       /\ visitedUrls \subseteq visitedUrls'
       /\ \A p \in PRIORITIES :
             \A i \in (Len(frontQueues[p]) + 1)..Len(frontQueues'[p]) :
                frontQueues'[p][i].item.url \notin visitedUrls'
       /\ (pc = "got" /\ urlInfo # NoURL /\ urlInfo.url \in visitedUrls)
             => (pc' = "loop" /\ UNCHANGED <<frontierVars, storeVars, downloads>>)
      ]_vars

\* getNextURL has returned a URL of the visited set
C3_Witness ==
    /\ pc = "got"
    /\ urlInfo # NoURL
    /\ urlInfo.url \in visitedUrls
    /\ downloads[urlInfo.url] = 1

\* C4: content dedup: no two stored records have the same hash, and a hash
\* that a successful download produced is the hash of exactly one record.
C4_ContentDedup ==
    /\ \A u1, u2 \in DOMAIN storage :
          storage[u1].hash = storage[u2].hash => u1 = u2
    /\ \A f \in fetched : Cardinality(RecordsWithHash(f[2])) = 1

\* two URLs were downloaded with the same body
C4_Witness ==
    \E f1, f2 \in fetched : f1[1] # f2[1] /\ f1[2] = f2[2]

\* C5: page budget: there are never more than maxPages records, and
\* getNextURL is not called once crawledCount has reached maxPages.
C5_PageBudget ==
    /\ Cardinality(DOMAIN storage) <= config.maxPages
    /\ crawledCount <= config.maxPages
    /\ pc = "got" => crawledCount < config.maxPages

\* the crawl has ended on its budget with URLs left in the frontier
C5_Witness ==
    /\ pc = "done"
    /\ config.maxPages > 0
    /\ crawledCount = config.maxPages
    /\ ~FrontierIsEmpty(frontQueues, backQueues)

\* C6: depth limit: no URL deeper than maxDepth is downloaded or stored; the
\* step that meets one changes nothing and goes back to the loop condition.
C6_DepthLimit ==
    [][/\ (downloads' # downloads \/ storage' # storage)
             => urlInfo.depth <= config.maxDepth
       /\ (pc = "got" /\ urlInfo # NoURL /\ urlInfo.depth > config.maxDepth)
             => (pc' = "loop" /\ UNCHANGED <<frontierVars, storeVars, downloads>>)
      ]_vars

\* a URL deeper than maxDepth was skipped and the loop has more to do
C6_Witness ==
    /\ pc = "loop"
    /\ urlInfo # NoURL
    /\ urlInfo.depth > config.maxDepth
    /\ downloads[urlInfo.url] = 0
    /\ LoopGuard(frontQueues, backQueues, crawledCount, config.maxPages)

\* C7: termination: the loop reaches Done, and at Done the frontier is empty
\* or crawledCount equals maxPages.
C7_Termination ==
    /\ <>(pc = "done")
    /\ [](pc = "done" =>
             \/ FrontierIsEmpty(frontQueues, backQueues)
             \/ crawledCount = config.maxPages)

\* Done after a wait, a failed download and a stored page
C7_Witness ==
    /\ pc = "done"
    /\ clock > MaxDelay
    /\ crawledCount > 0
    /\ \E u \in URLS : downloads[u] = 1 /\ u \notin DOMAIN storage
    /\ FrontierIsEmpty(frontQueues, backQueues)

\* C8, as stated: every URL getNextURL returned is in the visited set when its
\* loop step ends.
C8_AllReturnedVisited ==
    (pc = "loop" /\ urlInfo # NoURL) => urlInfo.url \in visitedUrls

\* C8, amended: every URL getNextURL returned with a depth of at most maxDepth
\* is in the visited set when its loop step ends (stored, duplicate content,
\* failed, or skipped as visited); the step that skips a URL for its depth
\* does not add it.
C8_ReturnedVisitedUnlessDeep ==
    /\ []((pc = "loop" /\ urlInfo # NoURL /\ urlInfo.depth <= config.maxDepth)
             => urlInfo.url \in visitedUrls)
    /\ [][(pc = "got" /\ urlInfo # NoURL /\ urlInfo.depth > config.maxDepth)
             => visitedUrls' = visitedUrls]_vars

\* a download failed, and its URL is visited though nothing is stored for it
C8_Witness ==
    /\ pc = "loop"
    /\ urlInfo # NoURL
    /\ urlInfo.url \in visitedUrls
    /\ urlInfo.url \notin DOMAIN storage
    /\ <<urlInfo.url, Sha256("body1")>> \notin fetched
    /\ <<urlInfo.url, Sha256("body2")>> \notin fetched

\* C9, as stated: no URLInfo deeper than maxDepth is in the frontier.
C9_NoDeepEnqueued ==
    \A info \in QueuedInfos : info.depth <= config.maxDepth

\* C9, amended: a link of depth maxDepth + 1 is enqueued and is discarded when
\* getNextURL returns it; no URLInfo deeper than maxDepth + 1 is enqueued.
C9_DepthAtMostOneOver ==
    /\ \A info \in QueuedInfos : info.depth <= config.maxDepth + 1
    /\ urlInfo # NoURL => urlInfo.depth <= config.maxDepth + 1

\* with maxDepth = 0 a link of the seed's page is in the frontier
C9_Witness ==
    /\ config.maxDepth = 0
    /\ \E info \in TierInfos(frontQueues) : info.depth = 1

\* C10: a call of getNextURL takes at most one URLInfo out of the tiers, the
\* front of the highest tier that is not empty, and puts it at the back of
\* its host's queue; nothing else takes a URLInfo out of a tier.
C10_Promotion ==
    [][IF pc = "loop" /\ pc' = "got"
       THEN \/ /\ \A p \in PRIORITIES : Len(frontQueues[p]) = 0
               /\ frontQueues' = frontQueues
            \/ \E p \in PRIORITIES :
                  /\ Len(frontQueues[p]) > 0
                  /\ \A q \in PRIORITIES : q > p => Len(frontQueues[q]) = 0
                  /\ frontQueues' = [frontQueues EXCEPT ![p] = Tail(@)]
                  /\ LET info == Head(frontQueues[p]).item
                         i == BackIndex(backQueues', info.host)
                     IN  /\ i # 0
                         /\ \/ /\ Len(backQueues'[i].queue) > 0
                               /\ backQueues'[i].queue[Len(backQueues'[i].queue)] = info
                            \/ /\ Len(backQueues'[i].queue) = 0
                               /\ urlInfo' = info
       ELSE \A p \in PRIORITIES : Len(frontQueues'[p]) >= Len(frontQueues[p])
      ]_vars

\* a seed was promoted while a link waited in a lower tier, and the call did
\* not return the seed
C10_Witness ==
    /\ pc = "got"
    /\ \E i \in 1..Len(backQueues) :
          /\ Len(backQueues[i].queue) > 0
          /\ LET last == backQueues[i].queue[Len(backQueues[i].queue)]
             IN  /\ last # urlInfo
                 /\ \E q \in PRIORITIES :
                       q < last.priority /\ Len(frontQueues[q]) > 0


\* C11: getNextURL returns none only if nothing is eligible: when a call has
\* returned none, no URL still queued, in a priority tier or in a host's back
\* queue, belongs to a host that was never dispatched to or was last
\* dispatched to at least politenessDelay ago (so the loop waits only when no
\* queued URL is politeness-eligible).
C11_NoneOnlyIfNothingEligible ==
    (pc = "got" /\ urlInfo = NoURL) =>
        \A info \in QueuedInfos :
            ~ \/ lastReturn[info.host] = Absent
              \/ clock - lastReturn[info.host] >= config.politenessDelay

\* new is old with one entry more, at index k
IsInsertion(old, new, k) ==
    /\ Len(new) = Len(old) + 1
    /\ k \in 1..Len(new)
    /\ \A i \in 1..Len(old) : old[i] = new[IF i < k THEN i ELSE i + 1]

\* this step is an addURL: it has put one entry at index k of tier t
AddedAt(t, k) ==
    /\ pc' = "frontier"
    /\ \A p \in PRIORITIES \ {t} : frontQueues'[p] = frontQueues[p]
    /\ IsInsertion(frontQueues[t], frontQueues'[t], k)

AddStep == pc' = "frontier" /\ frontQueues' # frontQueues

\* C12 as the spec has it: addURL puts the URL in the tier of its priority,
\* clamped into 0..4 (tier 4 for a priority above 4, tier 0 for one below 0),
\* behind every earlier entry of equal priority.
C12_ClampedTier ==
    [][AddStep =>
         \E t \in PRIORITIES, k \in 1..MaxQueued :
            /\ AddedAt(t, k)
            /\ LET p == frontQueues'[t][k].priority
               IN  /\ t = (IF p > 4 THEN 4 ELSE IF p < 0 THEN 0 ELSE p)
                   /\ \A i \in 1..Len(frontQueues[t]) :
                         frontQueues[t][i].priority = p => i < k]_vars

\* C12, amended: addURL puts the URL in the tier of its priority when that is
\* in 0..4 and in tier 0 otherwise, for a priority above 4 as for one below 0;
\* inside the tier the URL goes in front of the first entry of lower priority,
\* so behind every earlier entry of equal or higher priority.
C12_TierOrZero ==
    [][AddStep =>
         \E t \in PRIORITIES, k \in 1..MaxQueued :
            /\ AddedAt(t, k)
            /\ LET p == frontQueues'[t][k].priority
               IN  /\ frontQueues'[t][k].item.priority = p
                   /\ t = (IF p \in 0..4 THEN p ELSE 0)
                   /\ \A i \in 1..Len(frontQueues[t]) :
                         frontQueues[t][i].priority >= p <=> i < k]_vars

\* tier 0 holds a URL of priority 5 in front of a URL of priority -1
C12_Witness ==
    /\ pc = "frontier"
    /\ \E i, j \in 1..Len(frontQueues[0]) :
          /\ i < j
          /\ frontQueues[0][i].priority = 5
          /\ frontQueues[0][j].priority = -1

\* this step is a download that came back with nothing: download() or
\* parseHTML threw
FailStep == downloads' # downloads /\ fetched' = fetched

\* C13: a failed fetch is terminal and local: the step adds the URL to the
\* visited set, stores no record, leaves the record count and the frontier as
\* they were and goes back to the loop condition; no URL of the visited set
\* is downloaded, so the URL is not fetched again.
C13_FetchFailure ==
    [][/\ FailStep =>
             /\ downloads' = [downloads EXCEPT ![urlInfo.url] = 1]
             /\ visitedUrls' = visitedUrls \cup {urlInfo.url}
             /\ urlInfo.url \notin DOMAIN storage'
             /\ UNCHANGED <<storage, seenHashes, crawledCount>>
             /\ UNCHANGED <<frontQueues, backQueues, lastAccessTime>>
             /\ pc' = "loop"
       /\ \A u \in visitedUrls : downloads'[u] = downloads[u]
      ]_vars

\* a download has failed and the loop goes on with what is left in the frontier
C13_Witness ==
    /\ pc = "loop"
    /\ urlInfo # NoURL
    /\ downloads[urlInfo.url] = 1
    /\ \A f \in fetched : f[1] # urlInfo.url
    /\ urlInfo.url \in visitedUrls
    /\ urlInfo.url \notin DOMAIN storage
    /\ LoopGuard(frontQueues, backQueues, crawledCount, config.maxPages)

\* how many entries of the queues are the URLInfo info
QueuedCount(fq, bq, info) ==
    Cardinality({x \in PRIORITIES \X (1..MaxQueued) :
                    x[2] <= Len(fq[x[1]]) /\ fq[x[1]][x[2]].item = info})
      + Cardinality({x \in (1..Len(bq)) \X (1..MaxQueued) :
                        x[2] <= Len(bq[x[1]].queue) /\ bq[x[1]].queue[x[2]] = info})

\* C14: queue conservation: a getNextURL call takes out of the queues exactly
\* the entry it returns, and nothing when it returns none (the entries of all
\* tiers and back queues together are the same multiset before and after); an
\* addURL call adds exactly one entry; no other step changes the queues.  So
\* an entry not yet returned is held once, and a returned entry is no longer
\* held and cannot be returned again.
C14_Conservation ==
    [][LET held == (QueuedInfos \cup TierInfos(frontQueues')
                       \cup BackInfos(backQueues') \cup {urlInfo'}) \ {NoURL}
           Before(info) == QueuedCount(frontQueues, backQueues, info)
           After(info) == QueuedCount(frontQueues', backQueues', info)
       IN  IF pc' = "fgot"
           THEN \A info \in held :
                   After(info) = Before(info) - (IF urlInfo' = info THEN 1 ELSE 0)
           ELSE /\ backQueues' = backQueues
                /\ \/ frontQueues' = frontQueues
                   \/ \E t \in PRIORITIES, k \in 1..MaxQueued :
                         /\ AddedAt(t, k)
                         /\ \A info \in held :
                               After(info) = Before(info)
                                   + (IF frontQueues'[t][k].item = info THEN 1 ELSE 0)
      ]_vars

\* a call has returned none while URLs wait in a tier and in a back queue
C14_Witness ==
    /\ pc = "fgot"
    /\ urlInfo = NoURL
    /\ TierInfos(frontQueues) # {}
    /\ BackInfos(backQueues) # {}
    /\ TotalQueued(frontQueues, backQueues) = MaxQueued

\* the back queue of the i-th host as getFromBackQueue found it in this call:
\* what is left of it, with the URL the call returned in front
HeldBefore(i) ==
    IF urlInfo' # NoURL /\ urlInfo'.host = backQueues'[i].host
    THEN <<urlInfo'>> \o backQueues'[i].queue
    ELSE backQueues'[i].queue

\* C15: a host never dispatched to is eligible at once: when a call of
\* getNextURL finds its back queue non-empty, no URL of the host was ever
\* returned, and no earlier host in iteration order is ready (has a non-empty
\* back queue and was never dispatched to or was dispatched to at least
\* politenessDelay ago), the call returns the front URL of that host, whatever
\* the clock shows, a clock below politenessDelay included.
C15_NeverDispatchedHostFirst ==
    [][pc' = "got" =>
         \A i \in 1..Len(backQueues') :
            (/\ HeldBefore(i) # <<>>
             /\ lastReturn[backQueues'[i].host] = Absent
             /\ \A j \in 1..(i - 1) :
                   ~ /\ HeldBefore(j) # <<>>
                     /\ \/ lastReturn[backQueues'[j].host] = Absent
                        \/ clock - lastReturn[backQueues'[j].host]
                              >= config.politenessDelay)
               => urlInfo' = Head(HeldBefore(i))
      ]_vars

\* C16: no starvation after promotion: when getNextURL goes on being called
\* (and the clock goes on advancing), a URL that is in a host's back queue is
\* eventually returned, also while URLs of other hosts go on being enqueued
\* and promoted.
C16_NoStarvation ==
    []<>(pc = "fgot") =>
        \A u \in FrontierURLS :
            (\E info \in BackInfos(backQueues) : info.url = u)
                ~> (pc = "fgot" /\ urlInfo.url = u)

\* the URLs this step has taken from the front of a tier: one, or none
Promoted ==
    {Head(frontQueues[p]).item :
        p \in {q \in PRIORITIES : frontQueues'[q] # frontQueues[q]}}

\* C17: first in, first out: an addURL puts the URL behind every entry of
\* equal priority that is in its tier already, and a getNextURL takes from a
\* tier nothing but its front entry, so two URLs enqueued with the same
\* priority are promoted in the order they were enqueued; the promoted URL
\* goes to the back of its host's queue and the returned URL comes from the
\* front of it, so two URLs of a host are returned in the order they were
\* promoted.
C17_Fifo ==
    [][/\ AddStep =>
             \E t \in PRIORITIES, k \in 1..MaxQueued :
                /\ AddedAt(t, k)
                /\ \A i \in 1..Len(frontQueues[t]) :
                      frontQueues[t][i].priority = frontQueues'[t][k].priority
                          => i < k
       /\ pc' = "fgot" =>
             /\ \A p \in PRIORITIES :
                   \/ frontQueues'[p] = frontQueues[p]
                   \/ /\ frontQueues[p] # <<>>
                      /\ frontQueues'[p] = Tail(frontQueues[p])
             /\ Cardinality(Promoted) <= 1
             /\ Len(backQueues') >= Len(backQueues)
             /\ \A i \in 1..Len(backQueues') :
                   LET h == backQueues'[i].host
                       old == IF i <= Len(backQueues)
                              THEN backQueues[i].queue ELSE <<>>
                       new == {x \in Promoted : x.host = h}
                       mid == IF new = {} THEN old
                              ELSE Append(old, CHOOSE x \in new : TRUE)
                   IN  /\ i <= Len(backQueues) => backQueues[i].host = h
                       /\ \/ backQueues'[i].queue = mid
                          \/ /\ mid # <<>>
                             /\ urlInfo' = Head(mid)
                             /\ backQueues'[i].queue = Tail(mid)
      ]_vars

\* a URL has been returned while another URL of its host, of the same
\* priority, is next in the host's back queue and a third waits in that tier
C17_Witness ==
    /\ pc = "fgot"
    /\ urlInfo # NoURL
    /\ \E i \in 1..Len(backQueues) :
          /\ backQueues[i].host = urlInfo.host
          /\ backQueues[i].queue # <<>>
          /\ Head(backQueues[i].queue).url # urlInfo.url
          /\ Head(backQueues[i].queue).priority = urlInfo.priority
    /\ Len(frontQueues[SeedPriority]) > 0
    /\ urlInfo.priority = SeedPriority

\* this step is a download whose body has a hash that was stored before
DuplicateStep == \E f \in fetched' \ fetched : f[2] \in seenHashes

\* C18: a page with duplicate content is silently dropped: the step adds the
\* URL to the visited set and changes nothing else: no record is stored, the
\* record count stays, no link is enqueued, the frontier is as it was.
C18_DuplicateDropped ==
    [][DuplicateStep =>
          /\ fetched' \ fetched \subseteq {urlInfo.url} \X seenHashes
          /\ visitedUrls' = visitedUrls \cup {urlInfo.url}
          /\ UNCHANGED <<storage, seenHashes, crawledCount>>
          /\ UNCHANGED <<frontQueues, backQueues, lastAccessTime>>
          /\ pc' = "loop"
      ]_vars

\* a page has been dropped as a duplicate: its URL is visited, it has no
\* record, and the record with its hash belongs to another URL
C18_Witness ==
    /\ pc = "loop"
    /\ urlInfo # NoURL
    /\ urlInfo.url \in visitedUrls
    /\ urlInfo.url \notin DOMAIN storage
    /\ \E f \in fetched :
          /\ f[1] = urlInfo.url
          /\ f[2] \in seenHashes
          /\ RecordsWithHash(f[2]) # {}

\* the URLInfo of a link found d pages below the seed with URL u, as lines
\* 491-498 make it from the URLInfo of the page above
RECURSIVE Descendant(_, _)
Descendant(u, d) ==
    IF d = 0
    THEN MkURLInfo(u, SeedPriority, 0)
    ELSE NewUrlInfo(Descendant(u, d - 1), u)

\* C19: priority and depth go together: a seed is enqueued with priority 4
\* and depth 0, a link of a page of priority p and depth d with priority
\* max(0, p - 1) and depth d + 1, and a link that is in the visited set is not
\* enqueued; so every URLInfo the frontier holds or has returned has priority
\* max(0, 4 - depth), a priority in 0..4.  The last conjunct follows the chain
\* of links below a seed past the depth at which the priority reaches 0.
C19_PriorityFromDepth ==
    /\ [](\A info \in QueuedInfos \cup ({urlInfo} \ {NoURL}) :
             /\ info.priority = Max2(0, 4 - info.depth)
             /\ info.priority \in 0..4)
    /\ [][/\ pc = "init" =>
                \A info \in TierInfos(frontQueues') :
                   info.priority = 4 /\ info.depth = 0
          /\ pc = "got" =>
                \A p \in PRIORITIES :
                   \A i \in (Len(frontQueues[p]) + 1)..Len(frontQueues'[p]) :
                      LET info == frontQueues'[p][i].item
                      IN  /\ info.priority = Max2(0, urlInfo.priority - 1)
                          /\ info.depth = urlInfo.depth + 1
                          /\ info.url \notin visitedUrls'
         ]_vars
    /\ \A u \in URLS, d \in 0..(SeedPriority + 2) :
          /\ Descendant(u, d).depth = d
          /\ Descendant(u, d).priority = Max2(0, 4 - d)
          /\ Descendant(u, d).priority \in 0..4

\* the frontier holds a seed and the link of a link
C19_Witness ==
    /\ pc = "loop"
    /\ \E info \in QueuedInfos : info.depth = 0 /\ info.priority = 4
    /\ \E info \in QueuedInfos : info.depth = 2 /\ info.priority = 2

\* C20: the counters agree: crawledCount is the number of records; the URL of
\* every record is in the visited set and its hash in the set of hashes, so
\* there are at most as many records as visited URLs; the visited set and
\* the set of hashes only grow.
C20_CountersAgree ==
    /\ [](/\ crawledCount = Cardinality(DOMAIN storage)
          /\ \A u \in DOMAIN storage :
                /\ storage[u].url = u
                /\ u \in visitedUrls
                /\ storage[u].hash \in seenHashes
          /\ Cardinality(DOMAIN storage) <= Cardinality(visitedUrls))
    /\ [][/\ visitedUrls \subseteq visitedUrls'
          /\ seenHashes \subseteq seenHashes'
          /\ DOMAIN storage \subseteq DOMAIN storage'
         ]_vars

\* the crawl has ended with two records and a third URL visited without one
C20_Witness ==
    /\ pc = "done"
    /\ crawledCount = 2
    /\ Cardinality(DOMAIN storage) = 2
    /\ Cardinality(visitedUrls) = 3
    /\ Cardinality(seenHashes) = 2

====
